---- MODULE Spec2Model ----
(***************************************************************************)
(* Model of the Waveshare 1.54" v3 (GDEW0154M09) e-paper driver,           *)
(* src/src/epd1in54_v3/mod.rs and command.rs.                              *)
(*                                                                         *)
(* The driver is a struct {interface, color}.  Every operation is a        *)
(* straight-line sequence of calls to the transport interface (reset, cmd, *)
(* cmd_with_data, data_x_times, wait_until_idle) and to the delay          *)
(* primitive, each bus call followed by `?` (return the bus error).  Each  *)
(* source function is an operator giving that sequence of calls; the       *)
(* actions run the current call one interface call at a time, so that a    *)
(* bus error, a failed assertion and a busy line that is not released can  *)
(* happen between any two of them.  `trace` records the interface calls    *)
(* that the current driver operation has completed.                        *)
(***************************************************************************)
EXTENDS Integers, Sequences, FiniteSets, TLC

VARIABLES
    epd,      \* the driver instance: [alive, color] (struct Epd1in54, field color)
    call,     \* the driver operation being executed (or last executed) and its arguments
    pc,       \* index of the next interface call of the running operation
    trace,    \* interface calls completed by the current operation, in order
    result,   \* "none", "running", "Ok", "Err" (bus error) or "panic" (assert!)
    busy,     \* TRUE while the panel holds the busy line at its busy level
    fresh,    \* the interface calls made by the new that built the instance
    hist      \* the most recent finished operations (bounded observation window)

vars == <<epd, call, pc, trace, result, busy, fresh, hist>>

----------------------------------------------------------------------------
(* Bounds of the model *)

\* number of finished operations remembered in hist by the run specification
MaxHist == 2

----------------------------------------------------------------------------
(* Program constants: mod.rs *)

WIDTH == 200
HEIGHT == 200
DEFAULT_BACKGROUND_COLOR == "White"
IS_BUSY_LOW == TRUE

(* Program constants: command.rs, enum Command *)

PanelSetting == 0                        \* 0x00
PowerOff == 2                            \* 0x02
PowerOn == 4                             \* 0x04
DeepSleep == 7                           \* 0x07
DataStartTransmission1 == 16             \* 0x10
DisplayRefresh == 18                     \* 0x12
DataStartTransmission2 == 19             \* 0x13
Internal4D == 77                         \* 0x4D
VcomAndDataIntervalSetting == 80         \* 0x50
TconSetting == 96                        \* 0x60
ResolutionSetting == 97                  \* 0x61
InternalAA == 170                        \* 0xAA
InternalB6 == 182                        \* 0xB6
InternalE3 == 227                        \* 0xE3
InternalE9 == 233                        \* 0xE9
InternalF3 == 243                        \* 0xF3
SetRamXAddressStartEndPosition == 68     \* 0x44
SetRamYAddressStartEndPosition == 69     \* 0x45
SetRamXAddressCounter == 78              \* 0x4E
SetRamYAddressCounter == 79              \* 0x4F

----------------------------------------------------------------------------
(* Machine arithmetic *)

\* Coordinates and sizes are u32.  The inputs of the model keep every sum and
\* product below 2^31, where u32 arithmetic is exact (no wrap in a release
\* build, no overflow trap in a debug build), so + and * are the integers'.

\* `v as u8`: truncation to the low 8 bits
U8(v) == v % 256

\* `v >> k` on an unsigned value
Shr(v, k) == v \div (2 ^ k)

----------------------------------------------------------------------------
(* Colors (crate::color::Color) *)

Colors == {"White", "Black"}

\* Color::get_byte_value
get_byte_value(c) == IF c = "White" THEN 255 ELSE 0

----------------------------------------------------------------------------
(* Calls to the transport interface and to the delay primitive.  One       *)
(* record shape for all of them: kind, opcode, payload, value, number.     *)

Ev(k, c, b, v, m) == [kind |-> k, code |-> c, bytes |-> b, val |-> v, n |-> m]

\* DisplayInterface::reset(delay, initial_delay, duration)
Reset(initial_delay, duration) == Ev("reset", 0, <<initial_delay, duration>>, 0, 0)

\* DisplayInterface::cmd(spi, command)
Cmd(command) == Ev("cmd", command, <<>>, 0, 0)

\* DisplayInterface::cmd_with_data(spi, command, data)
CmdWithData(command, data) == Ev("cmd_with_data", command, data, 0, 0)

\* DisplayInterface::data_x_times(spi, val, repetitions)
DataXTimes(value, repetitions) == Ev("data_x_times", 0, <<>>, value, repetitions)

\* DisplayInterface::wait_until_idle(delay, is_busy_low)
WaitUntilIdle(is_busy_low) == Ev("wait", 0, <<>>, IF is_busy_low THEN 1 ELSE 0, 0)

\* DelayNs::delay_ms(ms)
DelayMs(ms) == Ev("delay", 0, <<>>, 0, ms)

\* assert!(cond): not an interface call; a step of the operation that panics
\* when cond is false
AssertThat(cond) == Ev("assert", 0, <<>>, IF cond THEN 1 ELSE 0, 0)

\* What a call of the interface puts on the bus: frames [mode, len], a
\* command frame of one opcode byte or a run of len data bytes.  cmd is one
\* command frame; cmd_with_data is the command frame and then the payload
\* as one data run; data_x_times is one data run; an empty payload and a
\* count of zero send nothing.
Frame(mode, len) == [mode |-> mode, len |-> len]

Wire(e) ==
    CASE e.kind = "cmd" -> <<Frame("command", 1)>>
      [] e.kind = "cmd_with_data" ->
            <<Frame("command", 1)>>
            \o (IF Len(e.bytes) > 0 THEN <<Frame("data", Len(e.bytes))>> ELSE <<>>)
      [] e.kind = "data_x_times" ->
            IF e.n > 0 THEN <<Frame("data", e.n)>> ELSE <<>>
      [] OTHER -> <<>>

RECURSIVE WireOf(_)
WireOf(t) == IF t = <<>> THEN <<>> ELSE Wire(Head(t)) \o WireOf(Tail(t))

\* the calls that go over the SPI bus and can return SPI::Error
BusKinds == {"cmd", "cmd_with_data", "data_x_times"}

----------------------------------------------------------------------------
(* The driver's functions, each as the sequence of steps its code makes.   *)
(* `?` after a bus call is the interpreter's job (action BusFault).        *)

\* WaveshareDisplay::wait_until_idle: polls the busy line, always Ok
wait_until_idle == <<WaitUntilIdle(IS_BUSY_LOW)>>

\* init sending the VCOM setting before the Tcon setting
init_reordered ==
    <<Reset(10000, 10000),
      CmdWithData(PanelSetting, <<223, 14>>),
      CmdWithData(Internal4D, <<85>>),
      CmdWithData(InternalAA, <<15>>),
      CmdWithData(InternalE9, <<2>>),
      CmdWithData(InternalB6, <<17>>),
      CmdWithData(InternalF3, <<10>>),
      CmdWithData(ResolutionSetting, <<200, 0, 200>>),
      CmdWithData(VcomAndDataIntervalSetting, <<151>>),
      CmdWithData(TconSetting, <<0>>),
      CmdWithData(InternalE3, <<0>>),
      Cmd(PowerOn),
      DelayMs(100)>>
    \o wait_until_idle

\* InternalWiAdditions::init
init ==
    <<Reset(10000, 10000),
      CmdWithData(PanelSetting, <<223, 14>>),                 \* [0xDF, 0x0E]
      CmdWithData(Internal4D, <<85>>),                        \* [0x55]
      CmdWithData(InternalAA, <<15>>),                        \* [0x0F]
      CmdWithData(InternalE9, <<2>>),                         \* [0x02]
      CmdWithData(InternalB6, <<17>>),                        \* [0x11]
      CmdWithData(InternalF3, <<10>>),                        \* [0x0A]
      CmdWithData(ResolutionSetting, <<200, 0, 200>>),        \* [0xC8, 0x00, 0xC8]
      CmdWithData(TconSetting, <<0>>),                        \* [0x00]
      CmdWithData(VcomAndDataIntervalSetting, <<151>>),       \* [0x97]
      CmdWithData(InternalE3, <<0>>),                         \* [0x00]
      Cmd(PowerOn),
      DelayMs(100)>>
    \o wait_until_idle

\* WaveshareDisplay::new: builds the instance with the default color and runs init
new == init

\* sleep that does not wait for the power-off to finish
sleep_nowait ==
    <<Cmd(PowerOff),
      DelayMs(1000),
      CmdWithData(DeepSleep, <<165>>)>>

\* WaveshareDisplay::sleep
sleep ==
    <<Cmd(PowerOff)>>
    \o wait_until_idle
    \o <<DelayMs(1000),
         CmdWithData(DeepSleep, <<165>>)>>                    \* [0xA5]

\* wake_up that skips the hardware reset
wake_up_noreset == Tail(init)

\* WaveshareDisplay::wake_up
wake_up == init

\* set_ram_area sending each Y coordinate high byte first
set_ram_area_bigendian(start_x, start_y, end_x, end_y) ==
    wait_until_idle
    \o <<AssertThat(start_x < end_x),
         AssertThat(start_y < end_y),
         CmdWithData(SetRamXAddressStartEndPosition,
                     <<U8(Shr(start_x, 3)), U8(Shr(end_x, 3))>>),
         CmdWithData(SetRamYAddressStartEndPosition,
                     <<U8(Shr(start_y, 8)), U8(start_y),
                       U8(Shr(end_y, 8)), U8(end_y)>>)>>

\* set_ram_area accepting an empty window (<= in place of <)
set_ram_area_lenient(start_x, start_y, end_x, end_y) ==
    wait_until_idle
    \o <<AssertThat(start_x <= end_x),
         AssertThat(start_y <= end_y),
         CmdWithData(SetRamXAddressStartEndPosition,
                     <<U8(Shr(start_x, 3)), U8(Shr(end_x, 3))>>),
         CmdWithData(SetRamYAddressStartEndPosition,
                     <<U8(start_y), U8(Shr(start_y, 8)),
                       U8(end_y), U8(Shr(end_y, 8))>>)>>

\* Epd1in54::set_ram_area
set_ram_area(start_x, start_y, end_x, end_y) ==
    wait_until_idle
    \o <<AssertThat(start_x < end_x),
         AssertThat(start_y < end_y),
         CmdWithData(SetRamXAddressStartEndPosition,
                     <<U8(Shr(start_x, 3)), U8(Shr(end_x, 3))>>),
         CmdWithData(SetRamYAddressStartEndPosition,
                     <<U8(start_y), U8(Shr(start_y, 8)),
                       U8(end_y), U8(Shr(end_y, 8))>>)>>

\* set_ram_counter sending the X pixel position instead of the X byte position
set_ram_counter_pixels(x, y) ==
    wait_until_idle
    \o <<CmdWithData(SetRamXAddressCounter, <<U8(x)>>),
         CmdWithData(SetRamYAddressCounter, <<U8(y), U8(Shr(y, 8))>>)>>

\* set_ram_counter that does not wait for the panel
set_ram_counter_nowait(x, y) ==
    <<CmdWithData(SetRamXAddressCounter, <<U8(Shr(x, 3))>>),
      CmdWithData(SetRamYAddressCounter, <<U8(y), U8(Shr(y, 8))>>)>>

\* Epd1in54::set_ram_counter
set_ram_counter(x, y) ==
    wait_until_idle
    \o <<CmdWithData(SetRamXAddressCounter, <<U8(Shr(x, 3))>>),
         CmdWithData(SetRamYAddressCounter, <<U8(y), U8(Shr(y, 8))>>)>>

\* Epd1in54::use_full_frame
use_full_frame ==
    set_ram_area(0, 0, WIDTH - 1, HEIGHT - 1)
    \o set_ram_counter(0, 0)

\* update_frame with the two phases exchanged
update_frame_swapped(color, buffer) ==
    use_full_frame
    \o wait_until_idle
    \o <<CmdWithData(DataStartTransmission1, buffer),
         Cmd(DataStartTransmission2),
         DataXTimes(get_byte_value(color), (WIDTH \div 8) * HEIGHT)>>

\* WaveshareDisplay::update_frame
update_frame(color, buffer) ==
    use_full_frame
    \o wait_until_idle
    \o <<Cmd(DataStartTransmission1),
         DataXTimes(get_byte_value(color), (WIDTH \div 8) * HEIGHT),
         CmdWithData(DataStartTransmission2, buffer)>>

\* update_partial_frame passing the size where the end corner is expected
update_partial_frame_size(color, buffer, x, y, width, height) ==
    wait_until_idle
    \o set_ram_area(x, y, width, height)
    \o set_ram_counter(x, y)
    \o <<Cmd(DataStartTransmission1),
         DataXTimes(get_byte_value(color), (width \div 8) * height),
         CmdWithData(DataStartTransmission2, buffer)>>

\* update_partial_frame asserting the buffer length before anything else
update_partial_frame_checked(color, buffer, x, y, width, height) ==
    <<AssertThat(Len(buffer) = ((width + 7) \div 8) * height)>>
    \o wait_until_idle
    \o set_ram_area(x, y, x + width, y + height)
    \o set_ram_counter(x, y)
    \o <<Cmd(DataStartTransmission1),
         DataXTimes(get_byte_value(color), (width \div 8) * height),
         CmdWithData(DataStartTransmission2, buffer)>>

\* WaveshareDisplay::update_partial_frame
update_partial_frame(color, buffer, x, y, width, height) ==
    wait_until_idle
    \o set_ram_area(x, y, x + width, y + height)
    \o set_ram_counter(x, y)
    \o <<Cmd(DataStartTransmission1),
         DataXTimes(get_byte_value(color), (width \div 8) * height),
         CmdWithData(DataStartTransmission2, buffer)>>

\* display_frame that refreshes without waiting for the panel first
display_frame_nowait ==
    <<Cmd(DisplayRefresh),
      DelayMs(10)>>
    \o wait_until_idle

\* WaveshareDisplay::display_frame
display_frame ==
    wait_until_idle
    \o <<Cmd(DisplayRefresh),
         DelayMs(10)>>
    \o wait_until_idle

\* update_and_display_frame refreshing before it updates
update_and_display_frame_reversed(color, buffer) ==
    display_frame
    \o update_frame(color, buffer)

\* WaveshareDisplay::update_and_display_frame
update_and_display_frame(color, buffer) ==
    update_frame(color, buffer)
    \o display_frame

\* clear_frame that does not announce phase 2 with its command
clear_frame_onecommand(color) ==
    wait_until_idle
    \o use_full_frame
    \o <<Cmd(DataStartTransmission1),
         DataXTimes(0, (WIDTH \div 8) * HEIGHT),
         DataXTimes(get_byte_value(color), (WIDTH \div 8) * HEIGHT)>>
    \o display_frame

\* clear_frame flooding phase 1 with the background color
clear_frame_colored(color) ==
    wait_until_idle
    \o use_full_frame
    \o <<Cmd(DataStartTransmission1),
         DataXTimes(get_byte_value(color), (WIDTH \div 8) * HEIGHT),
         Cmd(DataStartTransmission2),
         DataXTimes(get_byte_value(color), (WIDTH \div 8) * HEIGHT)>>
    \o display_frame

\* WaveshareDisplay::clear_frame
clear_frame(color) ==
    wait_until_idle
    \o use_full_frame
    \o <<Cmd(DataStartTransmission1),
         DataXTimes(0, (WIDTH \div 8) * HEIGHT),
         Cmd(DataStartTransmission2),
         DataXTimes(get_byte_value(color), (WIDTH \div 8) * HEIGHT)>>
    \o display_frame

\* WaveshareDisplay::set_lut: no step, returns Ok
set_lut == <<>>

----------------------------------------------------------------------------
(* Inputs *)

\* The caller's buffers (&[u8]); a call holds the buffer by name, as the
\* code holds it by reference.
Buf2 == <<0, 165>>
Buf32 == [i \in 1..32 |-> (i * 37) % 256]
BufFull == [i \in 1..5000 |-> 255]

BufferBytes(b) ==
    CASE b = "Buf2" -> Buf2
      [] b = "Buf32" -> Buf32
      [] b = "BufFull" -> BufFull
      [] OTHER -> <<>>

\* Inputs of the main specification: every operation, with coordinates
\* inside and outside the panel, empty windows, and buffers of the right
\* and of the wrong length.
MainInputs ==
    [bufs    |-> {"Buf2", "Buf32", "BufFull"},
     xs      |-> {0, 8, 13, 2056},
     ys      |-> {0, 100, 260},
     widths  |-> {0, 12, 16, 200},
     heights |-> {0, 16, 200},
     colors  |-> Colors]

\* Inputs of the run specification: the full-frame buffer, one valid and
\* one empty window.
RunInputs ==
    [bufs    |-> {"BufFull"},
     xs      |-> {8},
     ys      |-> {0},
     widths  |-> {0, 16},
     heights |-> {16},
     colors  |-> Colors]

----------------------------------------------------------------------------
(* Calls of driver operations *)

NoArg == "-"

MkCall(o, b, px, py, w, h, c) ==
    [op |-> o, buf |-> b, x |-> px, y |-> py, width |-> w, height |-> h, color |-> c]

NoCall == MkCall("none", NoArg, 0, 0, 0, 0, NoArg)

\* the steps of call c on a driver whose background color is col
Program(c, col) ==
    CASE c.op = "new" -> new
      [] c.op = "wake_up" -> wake_up
      [] c.op = "sleep" -> sleep
      [] c.op = "update_frame" -> update_frame(col, BufferBytes(c.buf))
      [] c.op = "update_partial_frame" ->
            update_partial_frame(col, BufferBytes(c.buf), c.x, c.y, c.width, c.height)
      [] c.op = "display_frame" -> display_frame
      [] c.op = "update_and_display_frame" ->
            update_and_display_frame(col, BufferBytes(c.buf))
      [] c.op = "clear_frame" -> clear_frame(col)
      [] c.op = "set_lut" -> set_lut
      [] OTHER -> <<>>

\* the running operation's steps
Prog == Program(call, epd.color)

\* hist keeps the last n finished operations
Remember(h, e, n) ==
    LET a == Append(h, e)
    IN  IF Len(a) > n THEN SubSeq(a, Len(a) - n + 1, Len(a)) ELSE a

\* the opcodes of the commands of a trace, in order
Opcodes(t) ==
    LET IsCommand(e) == e.kind \in {"cmd", "cmd_with_data"}
        c == SelectSeq(t, IsCommand)
    IN  [i \in 1..Len(c) |-> c[i].code]

\* what hist keeps of a finished operation
Finished == [call |-> call, result |-> result, codes |-> Opcodes(trace)]

----------------------------------------------------------------------------
(* Initial state: no driver instance yet (before new). *)

Init ==
    /\ epd = [alive |-> FALSE, color |-> DEFAULT_BACKGROUND_COLOR]
    /\ call = NoCall
    /\ pc = 1
    /\ trace = <<>>
    /\ result = "none"
    /\ busy \in BOOLEAN
    /\ fresh = <<>>
    /\ hist = <<>>

----------------------------------------------------------------------------
(* Entering a driver operation.  A caller makes one call at a time (the    *)
(* driver is used through &mut self); a panic ends the program.  `in` is   *)
(* the record of input sets, `window` the number of finished operations    *)
(* kept in hist.                                                           *)

CanCall == result \in {"none", "Ok", "Err"}

Begin(c, window) ==
    /\ CanCall
    /\ call' = c
    /\ pc' = 1
    /\ trace' = <<>>
    /\ result' = "running"
    /\ hist' = IF call.op = "none" THEN hist ELSE Remember(hist, Finished, window)
    /\ UNCHANGED <<epd, busy, fresh>>

\* new(spi, busy, dc, rst, delay, delay_us): only way to get an instance
Call_new(window) ==
    /\ ~epd.alive
    /\ Begin(MkCall("new", NoArg, 0, 0, 0, 0, NoArg), window)

Call_sleep(window) ==
    /\ epd.alive
    /\ Begin(MkCall("sleep", NoArg, 0, 0, 0, 0, NoArg), window)

Call_wake_up(window) ==
    /\ epd.alive
    /\ Begin(MkCall("wake_up", NoArg, 0, 0, 0, 0, NoArg), window)

Call_update_frame(in, window) ==
    /\ epd.alive
    /\ \E b \in in.bufs :
          Begin(MkCall("update_frame", b, 0, 0, 0, 0, NoArg), window)

Call_update_partial_frame(in, window) ==
    /\ epd.alive
    /\ \E b \in in.bufs, px \in in.xs, py \in in.ys,
          w \in in.widths, h \in in.heights :
          Begin(MkCall("update_partial_frame", b, px, py, w, h, NoArg), window)

\* display_frame refused when the last operation was sleep
Call_display_frame_awake(window) ==
    /\ epd.alive
    /\ call.op # "sleep"
    /\ Begin(MkCall("display_frame", NoArg, 0, 0, 0, 0, NoArg), window)

Call_display_frame(window) ==
    /\ epd.alive
    /\ Begin(MkCall("display_frame", NoArg, 0, 0, 0, 0, NoArg), window)

Call_update_and_display_frame(in, window) ==
    /\ epd.alive
    /\ \E b \in in.bufs :
          Begin(MkCall("update_and_display_frame", b, 0, 0, 0, 0, NoArg), window)

Call_clear_frame(window) ==
    /\ epd.alive
    /\ Begin(MkCall("clear_frame", NoArg, 0, 0, 0, 0, NoArg), window)

\* set_background_color that does not store its argument
Call_set_background_color_ignored(in, window) ==
    /\ epd.alive
    /\ CanCall
    /\ \E c \in in.colors :
          call' = MkCall("set_background_color", NoArg, 0, 0, 0, 0, c)
    /\ pc' = 1
    /\ trace' = <<>>
    /\ result' = "Ok"
    /\ hist' = IF call.op = "none" THEN hist ELSE Remember(hist, Finished, window)
    /\ UNCHANGED <<epd, busy, fresh>>

\* set_background_color(color): self.color = color, nothing else
Call_set_background_color(in, window) ==
    /\ epd.alive
    /\ CanCall
    /\ \E c \in in.colors :
          /\ epd' = [epd EXCEPT !.color = c]
          /\ call' = MkCall("set_background_color", NoArg, 0, 0, 0, 0, c)
    /\ pc' = 1
    /\ trace' = <<>>
    /\ result' = "Ok"
    /\ hist' = IF call.op = "none" THEN hist ELSE Remember(hist, Finished, window)
    /\ UNCHANGED <<busy, fresh>>

\* set_lut(spi, delay, refresh_rate): a body without steps, then Ok(())
Call_set_lut(window) ==
    /\ epd.alive
    /\ Begin(MkCall("set_lut", NoArg, 0, 0, 0, 0, NoArg), window)

----------------------------------------------------------------------------
(* Running the operation, one step at a time *)

Running == result = "running"
AtStep == Running /\ pc <= Len(Prog)

Advance ==
    /\ trace' = Append(trace, Prog[pc])
    /\ pc' = pc + 1
    /\ UNCHANGED <<epd, call, result, busy, fresh, hist>>

\* interface.reset: drives the reset line, cannot fail
StepReset ==
    /\ AtStep
    /\ Prog[pc].kind = "reset"
    /\ Advance

\* a bus call that returns Ok
StepBus ==
    /\ AtStep
    /\ Prog[pc].kind \in BusKinds
    /\ Advance

\* a bus call whose error is dropped: the operation goes on with its next step
BusFault_swallowed ==
    /\ AtStep
    /\ Prog[pc].kind \in BusKinds
    /\ pc' = pc + 1
    /\ UNCHANGED <<epd, call, trace, result, busy, fresh, hist>>

\* a bus call that returns Err(e): `?` returns e from the operation at once
BusFault ==
    /\ AtStep
    /\ Prog[pc].kind \in BusKinds
    /\ result' = "Err"
    /\ UNCHANGED <<epd, call, pc, trace, busy, fresh, hist>>

\* delay.delay_ms
StepDelay ==
    /\ AtStep
    /\ Prog[pc].kind = "delay"
    /\ Advance

\* wait_until_idle that returns without looking at the busy line
StepWait_blind ==
    /\ AtStep
    /\ Prog[pc].kind = "wait"
    /\ Advance

\* interface.wait_until_idle: returns once the busy line is at its idle level
StepWait ==
    /\ AtStep
    /\ Prog[pc].kind = "wait"
    /\ ~busy
    /\ Advance

\* assert!(cond) with cond true
StepAssert ==
    /\ AtStep
    /\ Prog[pc].kind = "assert"
    /\ Prog[pc].val = 1
    /\ pc' = pc + 1
    /\ UNCHANGED <<epd, call, trace, result, busy, fresh, hist>>

\* assert!(cond) with cond false: panic
AssertFail ==
    /\ AtStep
    /\ Prog[pc].kind = "assert"
    /\ Prog[pc].val = 0
    /\ result' = "panic"
    /\ UNCHANGED <<epd, call, pc, trace, busy, fresh, hist>>

\* the end of the function body: Ok(()); new returns Ok(epd)
Return ==
    /\ Running
    /\ pc > Len(Prog)
    /\ result' = "Ok"
    /\ epd' = IF call.op = "new" THEN [epd EXCEPT !.alive = TRUE] ELSE epd
    /\ fresh' = IF call.op = "new" THEN trace ELSE fresh
    /\ UNCHANGED <<call, pc, trace, busy, hist>>

\* the panel raises or releases the busy line
BusyChange ==
    /\ busy' = ~busy
    /\ UNCHANGED <<epd, call, pc, trace, result, fresh, hist>>

----------------------------------------------------------------------------
(* Specifications *)

Next ==
    \/ Call_new(0)
    \/ Call_sleep(0)
    \/ Call_wake_up(0)
    \/ Call_set_background_color(MainInputs, 0)
    \/ Call_update_frame(MainInputs, 0)
    \/ Call_update_partial_frame(MainInputs, 0)
    \/ Call_display_frame(0)
    \/ Call_update_and_display_frame(MainInputs, 0)
    \/ Call_clear_frame(0)
    \/ Call_set_lut(0)
    \/ StepReset
    \/ StepBus
    \/ BusFault
    \/ StepDelay
    \/ StepWait
    \/ StepAssert
    \/ AssertFail
    \/ Return
    \/ BusyChange

Spec == Init /\ [][Next]_vars

\* The steps the processor makes on its own: every call of the driver is a
\* blocking call on the caller's thread, so a step that can be made is made.
CpuStep ==
    \/ StepReset
    \/ StepBus
    \/ BusFault
    \/ StepDelay
    \/ StepAssert
    \/ AssertFail
    \/ Return

\* Spec with the scheduling of the code: the running operation goes on
\* (weak fairness of its steps), and the polling loop of wait_until_idle
\* sees the idle level if the line is at it again and again (strong
\* fairness of StepWait).  Nothing is assumed of the busy line itself.
SpecLive ==
    /\ Init
    /\ [][Next]_vars
    /\ WF_vars(CpuStep)
    /\ SF_vars(StepWait)

\* Runs of several operations in which no bus call fails, observed through
\* hist: the last MaxHist finished operations and the opcodes they sent.
NextRun ==
    \/ Call_new(MaxHist)
    \/ Call_sleep(MaxHist)
    \/ Call_wake_up(MaxHist)
    \/ Call_set_background_color(RunInputs, MaxHist)
    \/ Call_update_frame(RunInputs, MaxHist)
    \/ Call_update_partial_frame(RunInputs, MaxHist)
    \/ Call_display_frame(MaxHist)
    \/ Call_update_and_display_frame(RunInputs, MaxHist)
    \/ Call_clear_frame(MaxHist)
    \/ Call_set_lut(MaxHist)
    \/ StepReset
    \/ StepBus
    \/ StepDelay
    \/ StepWait
    \/ StepAssert
    \/ AssertFail
    \/ Return
    \/ BusyChange

SpecRun == Init /\ [][NextRun]_vars

----------------------------------------------------------------------------
(* Vocabulary of the properties *)

IsPrefix(s, t) == Len(s) <= Len(t) /\ SubSeq(t, 1, Len(s)) = s

IsBus(e) == e.kind \in BusKinds

\* the bus transactions of a trace, in order
BusOf(t) == SelectSeq(t, IsBus)

Busy == WaitUntilIdle(TRUE)

\* ceil(width / 8) * height
RequiredLen(width, height) == ((width + 7) \div 8) * height

----------------------------------------------------------------------------
(* C1: update_frame, for every buffer and every background color, emits    *)
(* the full-window and origin-counter selection, one busy-wait, command    *)
(* 0x10 with 5000 bytes of the background color's byte, then command 0x13  *)
(* with exactly the caller's buffer, in that order and with nothing in     *)
(* between or after.                                                       *)

C1_Expected ==
    <<Busy,
      CmdWithData(68, <<0, 24>>),
      CmdWithData(69, <<0, 0, 199, 0>>),
      Busy,
      CmdWithData(78, <<0>>),
      CmdWithData(79, <<0, 0>>),
      Busy,
      Cmd(16),
      DataXTimes(get_byte_value(epd.color), 5000),
      CmdWithData(19, BufferBytes(call.buf))>>

C1_UpdateFrameTrace ==
    call.op = "update_frame" =>
        /\ IsPrefix(trace, C1_Expected)
        /\ result = "Ok" => trace = C1_Expected
        /\ result # "panic"

C1_Witness ==
    /\ call.op = "update_frame"
    /\ result = "Ok"
    /\ call.buf = "Buf32"
    /\ epd.color = "Black"
    /\ trace[9] = DataXTimes(0, 5000)
    /\ trace[10].bytes = Buf32

----------------------------------------------------------------------------
(* C2: update_partial_frame(buffer, x, y, width, height) with width > 0    *)
(* and height > 0 begins with a busy-wait and its bus transactions are, in *)
(* order: the window commands for (x, y) and (x+width, y+height) with X    *)
(* bytes (x>>3, (x+width)>>3); the counter commands for (x, y) with X byte *)
(* x>>3; command 0x10 with a flood of the background color's byte; command *)
(* 0x13 with the supplied buffer.                                          *)

\* the bus transactions C2 describes; the flood's length is not part of C2
C2_Expected(floodLen) ==
    <<CmdWithData(68, <<call.x \div 8, (call.x + call.width) \div 8>>),
      CmdWithData(69, <<call.y % 256, call.y \div 256,
                        (call.y + call.height) % 256, (call.y + call.height) \div 256>>),
      CmdWithData(78, <<call.x \div 8>>),
      CmdWithData(79, <<call.y % 256, call.y \div 256>>),
      Cmd(16),
      DataXTimes(get_byte_value(epd.color), floodLen),
      CmdWithData(19, BufferBytes(call.buf))>>

C2_Holds ==
    LET b == BusOf(trace)
        e == C2_Expected(IF Len(b) >= 6 THEN b[6].n ELSE 0)
    IN  /\ trace # <<>> => trace[1] = Busy
        /\ IsPrefix(b, e)
        /\ result = "Ok" => b = e
        /\ result # "panic"

\* C2 as stated: for every call with width > 0 and height > 0
C2_AnyCoordinates ==
    (call.op = "update_partial_frame" /\ call.width > 0 /\ call.height > 0)
        => C2_Holds

\* C2 amended: for the calls whose coordinates the two address bytes can
\* hold, x + width < 2048 and y + height < 65536
C2_PartialFrameTrace ==
    (/\ call.op = "update_partial_frame" /\ call.width > 0 /\ call.height > 0
     /\ call.x + call.width < 2048 /\ call.y + call.height < 65536)
        => C2_Holds

\* scenario C: (x=8, y=0, width=16, height=16) with a 32-byte buffer
C2_Witness ==
    /\ call.op = "update_partial_frame"
    /\ result = "Ok"
    /\ call.x = 8 /\ call.y = 0 /\ call.width = 16 /\ call.height = 16
    /\ call.buf = "Buf32" /\ Len(BufferBytes(call.buf)) = 32
    /\ BusOf(trace)[1] = CmdWithData(68, <<1, 3>>)
    /\ BusOf(trace)[3] = CmdWithData(78, <<1>>)

----------------------------------------------------------------------------
(* C3: for start_x < end_x and start_y < end_y within the 9-bit range,     *)
(* set_ram_area transmits 0x44 with [start_x>>3, end_x>>3] and then 0x45   *)
(* with [start_y mod 256, start_y div 256, end_y mod 256, end_y div 256].  *)

\* the operations that enter set_ram_area, the arguments they pass and the
\* place of its first command in their trace
C3_EntersArea ==
    call.op \in {"update_partial_frame", "update_frame",
                 "update_and_display_frame", "clear_frame"}

C3_Args ==
    IF call.op = "update_partial_frame"
    THEN <<call.x, call.y, call.x + call.width, call.y + call.height>>
    ELSE <<0, 0, 199, 199>>

C3_At == IF call.op \in {"update_frame", "update_and_display_frame"} THEN 2 ELSE 3

C3_WindowEncoding ==
    LET a == C3_Args
        k == C3_At
    IN  (/\ C3_EntersArea
         /\ a[1] < a[3] /\ a[2] < a[4]
         /\ \A i \in 1..4 : a[i] < 512)
        => /\ Len(trace) >= k =>
                trace[k] = CmdWithData(68, <<a[1] \div 8, a[3] \div 8>>)
           /\ Len(trace) >= k + 1 =>
                trace[k + 1] = CmdWithData(69, <<a[2] % 256, a[2] \div 256,
                                                 a[4] % 256, a[4] \div 256>>)
           /\ result = "Ok" => Len(trace) >= k + 1

\* a window whose Y coordinates need the ninth bit and whose X coordinates
\* are not multiples of 8
C3_Witness ==
    /\ call.op = "update_partial_frame"
    /\ call.x = 13 /\ call.y = 260 /\ call.width = 12 /\ call.height = 16
    /\ Len(trace) >= 4
    /\ trace[3].bytes = <<1, 3>>
    /\ trace[4].bytes = <<4, 1, 20, 1>>

----------------------------------------------------------------------------
(* C4: for (x, y) inside the panel (x < 200, y < 200), set_ram_counter     *)
(* transmits 0x4E with [x>>3] and then 0x4F with [y mod 256, y div 256].   *)

C4_Args == IF call.op = "update_partial_frame" THEN <<call.x, call.y>> ELSE <<0, 0>>

\* the place of set_ram_counter's first command in the trace
C4_At == C3_At + 3

C4_CounterEncoding ==
    LET a == C4_Args
        k == C4_At
    IN  (C3_EntersArea /\ a[1] < 200 /\ a[2] < 200)
        => /\ Len(trace) >= k => trace[k] = CmdWithData(78, <<a[1] \div 8>>)
           /\ Len(trace) >= k + 1 =>
                trace[k + 1] = CmdWithData(79, <<a[2] % 256, a[2] \div 256>>)
           /\ result = "Ok" => Len(trace) >= k + 1

C4_Witness ==
    /\ call.op = "update_partial_frame"
    /\ call.x = 13 /\ call.y = 100
    /\ Len(trace) >= 7
    /\ trace[6] = CmdWithData(78, <<1>>)
    /\ trace[7] = CmdWithData(79, <<100, 0>>)

----------------------------------------------------------------------------
(* C5: when set_ram_area is entered with start_x >= end_x or start_y >=    *)
(* end_y (update_partial_frame with width = 0 or height = 0), the call     *)
(* ends in the assertion failure and has sent no bus transaction: it       *)
(* never returns Ok or a bus error, and its trace holds busy-waits only.   *)

C5_EmptyWindow ==
    /\ call.op = "update_partial_frame"
    /\ \/ call.x >= call.x + call.width
       \/ call.y >= call.y + call.height

C5_EmptyWindowPanics ==
    C5_EmptyWindow =>
        /\ result \in {"running", "panic"}
        /\ BusOf(trace) = <<>>
        /\ trace \in {<<>>, <<Busy>>, <<Busy, Busy>>}
        /\ Len(trace) = 2 => Prog[pc].kind = "assert"

\* the second assertion (start_y < end_y) fails after the first one passed
C5_Witness ==
    /\ C5_EmptyWindow
    /\ call.width > 0 /\ call.height = 0
    /\ result = "panic"
    /\ trace = <<Busy, Busy>>

----------------------------------------------------------------------------
(* C6: update_partial_frame and the length of its buffer.                  *)

C6_WrongLength ==
    /\ call.op = "update_partial_frame"
    /\ Len(BufferBytes(call.buf)) # RequiredLen(call.width, call.height)

----------------------------------------------------------------------------
(* C9: a fault-free Initialize (init, run by new and by wake_up) emits, in *)
(* this order and nothing else: reset; 0x00 [0xDF,0x0E]; 0x4D [0x55];      *)
(* 0xAA [0x0F]; 0xE9 [0x02]; 0xB6 [0x11]; 0xF3 [0x0A]; 0x61 [0xC8,0x00,    *)
(* 0xC8]; 0x60 [0x00]; 0x50 [0x97]; 0xE3 [0x00]; 0x04; settle delay;       *)
(* busy-wait.  It returns only after that busy-wait.                       *)

C9_Expected ==
    <<Reset(10000, 10000),
      CmdWithData(0, <<223, 14>>),
      CmdWithData(77, <<85>>),
      CmdWithData(170, <<15>>),
      CmdWithData(233, <<2>>),
      CmdWithData(182, <<17>>),
      CmdWithData(243, <<10>>),
      CmdWithData(97, <<200, 0, 200>>),
      CmdWithData(96, <<0>>),
      CmdWithData(80, <<151>>),
      CmdWithData(227, <<0>>),
      Cmd(4),
      DelayMs(100),
      Busy>>

C9_InitTrace ==
    call.op \in {"new", "wake_up"} =>
        /\ IsPrefix(trace, C9_Expected)
        /\ result = "Ok" =>
              /\ trace = C9_Expected
              /\ trace[Len(trace)] = Busy
              /\ BusOf(trace)[Len(BusOf(trace))] = Cmd(4)
        /\ result # "panic"

C9_Witness ==
    /\ call.op = "new"
    /\ result = "Ok"
    /\ epd.alive
    /\ Len(trace) = 14

----------------------------------------------------------------------------
(* C10: a fault-free sleep emits exactly: 0x02; busy-wait; discharge       *)
(* delay; 0x07 [0xA5].  DeepSleep is sent only after PowerOff and a        *)
(* completed busy-wait, and nothing is sent after it.                      *)

C10_Expected ==
    <<Cmd(2),
      Busy,
      DelayMs(1000),
      CmdWithData(7, <<165>>)>>

C10_SleepTrace ==
    call.op = "sleep" =>
        /\ IsPrefix(trace, C10_Expected)
        /\ result = "Ok" => trace = C10_Expected
        /\ result # "panic"
        /\ \A i \in 1..Len(trace) :
              (IsBus(trace[i]) /\ trace[i].code = 7) =>
                  /\ i = Len(trace)
                  /\ \E j \in 1..(i - 1) : \E k \in (j + 1)..(i - 1) :
                        trace[j] = Cmd(2) /\ trace[k] = Busy

C10_Witness ==
    /\ call.op = "sleep"
    /\ result = "Ok"
    /\ trace[4] = CmdWithData(7, <<165>>)

----------------------------------------------------------------------------
(* C7: every fault-free display_frame emits exactly one DisplayRefresh     *)
(* (0x12), one busy-wait before it and one after it, and no other bus      *)
(* transaction; and in the run new, update_frame(5000-byte buffer),        *)
(* display_frame nothing faults and the commands sent by the three         *)
(* operations together hold exactly one DisplayRefresh.                    *)

C7_Expected ==
    <<Busy,
      Cmd(18),
      DelayMs(10),
      Busy>>

\* hist shows that new and then update_frame(BufFull) returned Ok
C7_ScenarioA ==
    /\ call.op = "display_frame"
    /\ Len(hist) = 2
    /\ hist[1].call.op = "new" /\ hist[1].result = "Ok"
    /\ hist[2].call.op = "update_frame" /\ hist[2].result = "Ok"
    /\ Len(BufferBytes(hist[2].call.buf)) = 5000

C7_Refreshes(codes) == Cardinality({i \in 1..Len(codes) : codes[i] = 18})

C7_OneRefresh ==
    /\ call.op = "display_frame" =>
          /\ IsPrefix(trace, C7_Expected)
          /\ result = "Ok" =>
                /\ trace = C7_Expected
                /\ BusOf(trace) = <<Cmd(18)>>
          /\ result \in {"running", "Ok"}
    /\ C7_ScenarioA =>
          /\ C7_Refreshes(hist[1].codes) = 0
          /\ C7_Refreshes(hist[2].codes) = 0
          /\ result = "Ok" =>
                C7_Refreshes(hist[1].codes \o hist[2].codes \o Opcodes(trace)) = 1

C7_Witness ==
    /\ C7_ScenarioA
    /\ result = "Ok"
    /\ Len(hist[1].codes) = 11
    /\ Len(hist[2].codes) = 6
    /\ trace = C7_Expected

----------------------------------------------------------------------------
(* C8: the sequence of reset, commands with payloads, delay and busy-wait  *)
(* emitted by wake_up, after any history (sleep, background-color changes) *)
(* is the one emitted by the initialization inside new.                    *)

C8_WakeUpSameAsNew ==
    call.op = "wake_up" =>
        /\ IsPrefix(trace, fresh)
        /\ result = "Ok" => trace = fresh
        /\ fresh # <<>>
        /\ result \in {"running", "Ok"}

\* a wake_up that returned Ok after a background-color change and a sleep
C8_Witness ==
    /\ call.op = "wake_up"
    /\ result = "Ok"
    /\ Len(hist) = 2
    /\ hist[1].call.op = "set_background_color" /\ hist[1].call.color = "Black"
    /\ hist[2].call.op = "sleep" /\ hist[2].result = "Ok"
    /\ epd.color = "Black"
    /\ Len(trace) = 14

----------------------------------------------------------------------------
(* C11: a fault-free clear_frame emits: busy-wait; full-window and         *)
(* origin-counter addressing; 0x10 with 5000 bytes 0x00 whatever the       *)
(* background color; 0x13 with 5000 bytes of the background color's byte;  *)
(* then the display_frame sequence (busy-wait, 0x12, delay, busy-wait):    *)
(* exactly one DisplayRefresh per clear.                                   *)

C11_Expected ==
    <<Busy,
      Busy,
      CmdWithData(68, <<0, 24>>),
      CmdWithData(69, <<0, 0, 199, 0>>),
      Busy,
      CmdWithData(78, <<0>>),
      CmdWithData(79, <<0, 0>>),
      Cmd(16),
      DataXTimes(0, 5000),
      Cmd(19),
      DataXTimes(get_byte_value(epd.color), 5000),
      Busy,
      Cmd(18),
      DelayMs(10),
      Busy>>

C11_ClearFrameTrace ==
    call.op = "clear_frame" =>
        /\ IsPrefix(trace, C11_Expected)
        /\ result = "Ok" =>
              /\ trace = C11_Expected
              /\ Cardinality({i \in 1..Len(trace) : trace[i] = Cmd(18)}) = 1
        /\ result # "panic"

\* a clear with the white background: phase 1 is 0x00, phase 2 is 0xFF
C11_Witness ==
    /\ call.op = "clear_frame"
    /\ result = "Ok"
    /\ epd.color = "White"
    /\ trace[9] = DataXTimes(0, 5000)
    /\ trace[11] = DataXTimes(255, 5000)

----------------------------------------------------------------------------
(* C12: in every driver operation, when a bus transaction fails the        *)
(* operation emits no further transaction (no retry, no later step such as *)
(* the display refresh), returns that fault and leaves the background      *)
(* color unchanged; a fault during new yields no driver instance.          *)

C12_IsEmitted(e) == e.kind # "assert"

\* what the steps before pc emit when none of them is skipped
C12_Done == SelectSeq(SubSeq(Prog, 1, pc - 1), C12_IsEmitted)

C12_State ==
    /\ result \in {"running", "Err"} => trace = C12_Done
    /\ result = "Err" =>
          /\ pc <= Len(Prog)
          /\ Prog[pc].kind \in BusKinds
          /\ call.op = "new" => ~epd.alive
          /\ (\A i \in pc..Len(Prog) : \A j \in 1..Len(trace) :
                 Prog[i].kind = "cmd" /\ Prog[i].code = 18 => trace[j] # Cmd(18))

C12_Step ==
    /\ (result' = "Err" /\ result # "Err") =>
          /\ result = "running"
          /\ trace' = trace /\ pc' = pc /\ epd' = epd /\ call' = call
    /\ (result = "Err" /\ busy' = busy) =>
          \* nothing more from the failed operation: the next step is another call
          /\ trace' = <<>> /\ pc' = 1 /\ result' \in {"running", "Ok"}
    /\ result = "running" => epd'.color = epd.color

C12_FaultAborts == [](C12_State) /\ [][C12_Step]_vars

\* update_and_display_frame whose phase-2 transmission failed: no refresh
C12_Witness ==
    /\ call.op = "update_and_display_frame"
    /\ result = "Err"
    /\ Prog[pc] = CmdWithData(19, BufferBytes(call.buf))
    /\ Len(trace) = 9
    /\ \A j \in 1..Len(trace) : trace[j] # Cmd(18)

----------------------------------------------------------------------------
(* C13: set_background_color and set_lut emit no bus transaction, no reset *)
(* and no busy-wait in any state; set_background_color changes only the    *)
(* stored color, set_lut changes nothing and returns Ok.  So a second      *)
(* set_background_color with the same value leaves the driver as the first *)
(* one left it, and what follows is the same.                              *)

C13_State ==
    /\ call.op \in {"set_background_color", "set_lut"} =>
          /\ trace = <<>>
          /\ result \in {"running", "Ok"}
    /\ call.op = "set_background_color" =>
          /\ result = "Ok"
          /\ epd.color = call.color

\* a step that enters set_background_color or set_lut, or runs set_lut
C13_Step ==
    (call'.op \in {"set_background_color", "set_lut"} /\ busy' = busy) =>
        /\ epd'.alive = epd.alive
        /\ fresh' = fresh
        /\ call'.op = "set_lut" => epd' = epd
        /\ call'.op = "set_background_color" => epd'.color = call'.color
        \* the same value again: the driver is as it was
        /\ (call.op = "set_background_color" /\ call' = call) =>
              /\ epd' = epd /\ trace' = trace /\ result' = result
              /\ pc' = pc /\ fresh' = fresh

C13_NoBusActivity == [](C13_State) /\ [][C13_Step]_vars

\* set_background_color(Black) finished twice in a row
C13_Witness ==
    /\ call.op = "set_background_color" /\ call.color = "Black"
    /\ result = "Ok"
    /\ Len(hist) = 2
    /\ hist[2].call = call /\ hist[2].codes = <<>>
    /\ epd.color = "Black"
    /\ trace = <<>>

----------------------------------------------------------------------------
(* C14: for every buffer the trace of update_and_display_frame(buffer) is  *)
(* the trace of update_frame(buffer) followed by the trace of              *)
(* display_frame, nothing added, removed or reordered; when the            *)
(* update_frame part faults, display_frame is not started.                 *)

\* C1_Expected and C7_Expected are the traces of the two operations, for
\* the buffer of the call and the color of the instance
C14_Expected == C1_Expected \o C7_Expected

C14_Composition ==
    call.op = "update_and_display_frame" =>
        /\ IsPrefix(trace, C14_Expected)
        /\ result = "Ok" => trace = C14_Expected
        /\ (result = "Err" /\ Len(trace) < Len(C1_Expected)) =>
              IsPrefix(trace, C1_Expected)
        /\ result # "panic"

C14_Witness ==
    /\ call.op = "update_and_display_frame"
    /\ result = "Ok"
    /\ call.buf = "Buf32"
    /\ SubSeq(trace, 1, 10) = C1_Expected
    /\ SubSeq(trace, 11, 14) = C7_Expected

----------------------------------------------------------------------------
(* C15: every driver operation terminates provided the busy line reaches   *)
(* the ready level each time it is waited on; while the busy line is not   *)
(* at the ready level an operation at a busy-wait does not go on or        *)
(* return; and no operation reports a timeout: the only error is the one   *)
(* of a failed bus transaction.                                            *)

C15_AtWait == AtStep /\ Prog[pc].kind = "wait"

\* at a busy-wait with the line busy, the operation stays where it is
C15_Step ==
    (C15_AtWait /\ busy) =>
        /\ pc' = pc /\ result' = result /\ trace' = trace /\ call' = call

C15_State ==
    /\ result \in {"none", "running", "Ok", "Err", "panic"}
    /\ result = "Err" => ~C15_AtWait /\ Prog[pc].kind \in BusKinds

C15_BusyWait ==
    /\ ([]<>(~busy)) => (Running ~> ~Running)
    /\ [][C15_Step]_vars
    /\ [](C15_State)

\* display_frame held at its second busy-wait by a busy panel
C15_Witness ==
    /\ call.op = "display_frame"
    /\ C15_AtWait
    /\ busy
    /\ trace = <<Busy, Cmd(18), DelayMs(10)>>

----------------------------------------------------------------------------
(* C16: the busy-wait before the addressing commands 0x44, 0x45, 0x4E,     *)
(* 0x4F in the trace of every operation.                                   *)

C16_IsAddressing(e, codes) == e.kind = "cmd_with_data" /\ e.code \in codes

\* C16 as stated: each of the four addressing commands is immediately
\* preceded by a busy-wait.
C16_EachAfterWait ==
    \A i \in 1..Len(trace) :
        C16_IsAddressing(trace[i], {68, 69, 78, 79}) =>
            i > 1 /\ trace[i - 1] = Busy

\* C16 amended: each helper waits once, immediately before its pair of
\* addressing commands.  0x44 and 0x4E are immediately preceded by a
\* busy-wait; 0x45 immediately follows 0x44 and 0x4F immediately follows
\* 0x4E, with no busy-wait and no other transaction in between.
C16_PairAfterWait ==
    \A i \in 1..Len(trace) :
        /\ C16_IsAddressing(trace[i], {68, 78}) =>
              i > 1 /\ trace[i - 1] = Busy
        /\ C16_IsAddressing(trace[i], {69}) =>
              i > 2 /\ C16_IsAddressing(trace[i - 1], {68}) /\ trace[i - 2] = Busy
        /\ C16_IsAddressing(trace[i], {79}) =>
              i > 2 /\ C16_IsAddressing(trace[i - 1], {78}) /\ trace[i - 2] = Busy

C16_Witness ==
    /\ call.op = "update_partial_frame"
    /\ result = "Ok"
    /\ trace[2] = Busy
    /\ C16_IsAddressing(trace[3], {68}) /\ C16_IsAddressing(trace[4], {69})
    /\ trace[5] = Busy
    /\ C16_IsAddressing(trace[6], {78}) /\ C16_IsAddressing(trace[7], {79})

----------------------------------------------------------------------------
(* C17: in the trace of every operation, every run of data-framed bytes (a *)
(* payload or a repeated-byte flood) is immediately preceded by exactly    *)
(* one command-framed opcode byte of the same operation: no data without   *)
(* its command, and never two data runs after one command.                 *)

C17_DataAfterCommand ==
    LET w == WireOf(trace)
    IN  \A i \in 1..Len(w) :
            w[i].mode = "data" =>
                /\ i > 1
                /\ w[i - 1] = Frame("command", 1)

\* clear_frame: two floods, each after its own command
C17_Witness ==
    /\ call.op = "clear_frame"
    /\ result = "Ok"
    /\ Len(WireOf(trace)) = 13
    /\ WireOf(trace)[9] = Frame("command", 1)
    /\ WireOf(trace)[10] = Frame("data", 5000)
    /\ WireOf(trace)[11] = Frame("command", 1)
    /\ WireOf(trace)[12] = Frame("data", 5000)

----------------------------------------------------------------------------
(* C18: the driver keeps no lifecycle state and has no guard against       *)
(* out-of-order calls: the trace of an operation is a function of its      *)
(* arguments and of the current background color only, whatever ran        *)
(* before.  update_frame, update_partial_frame, display_frame and          *)
(* clear_frame called after sleep without a wake_up are not rejected and   *)
(* emit the same transactions as otherwise.                                *)

C18_PartialExpected ==
    LET b == C2_Expected((call.width \div 8) * call.height)
    IN  IF call.width > 0 /\ call.height > 0
        THEN <<Busy, Busy, b[1], b[2], Busy, b[3], b[4], b[5], b[6], b[7]>>
        ELSE <<Busy, Busy>>

\* the trace of the current call, from its arguments and epd.color alone
C18_Expected ==
    CASE call.op \in {"new", "wake_up"} -> C9_Expected
      [] call.op = "sleep" -> C10_Expected
      [] call.op = "update_frame" -> C1_Expected
      [] call.op = "update_partial_frame" -> C18_PartialExpected
      [] call.op = "display_frame" -> C7_Expected
      [] call.op = "update_and_display_frame" -> C14_Expected
      [] call.op = "clear_frame" -> C11_Expected
      [] OTHER -> <<>>

\* the operation before the current one was a sleep that returned Ok
C18_AfterSleep ==
    /\ Len(hist) >= 1
    /\ hist[Len(hist)].call.op = "sleep"
    /\ hist[Len(hist)].result = "Ok"

C18_NoLifecycle ==
    /\ IsPrefix(trace, C18_Expected)
    /\ result = "Ok" => trace = C18_Expected
    /\ result = "panic" =>
          call.op = "update_partial_frame" /\ (call.width = 0 \/ call.height = 0)
    \* after a sleep every operation can be called
    /\ (call.op = "sleep" /\ result = "Ok") =>
          /\ ENABLED Call_update_frame(RunInputs, MaxHist)
          /\ ENABLED Call_update_partial_frame(RunInputs, MaxHist)
          /\ ENABLED Call_display_frame(MaxHist)
          /\ ENABLED Call_clear_frame(MaxHist)

\* update_frame run to its end right after sleep, no wake_up in between
C18_Witness ==
    /\ C18_AfterSleep
    /\ call.op = "update_frame"
    /\ result = "Ok"
    /\ trace = C1_Expected

----------------------------------------------------------------------------
(* C19: for update_partial_frame with width > 0, height > 0 and a buffer   *)
(* of the required length ceil(width/8)*height, the number of flood bytes  *)
(* sent after 0x10 equals the number of buffer bytes sent after 0x13, also *)
(* when width is not a multiple of 8.                                      *)

C19_SamePhaseLength ==
    (/\ call.op = "update_partial_frame"
     /\ call.width > 0 /\ call.height > 0
     /\ Len(BufferBytes(call.buf)) = RequiredLen(call.width, call.height)
     /\ result = "Ok")
        => /\ trace[9].kind = "data_x_times"
           /\ trace[10].kind = "cmd_with_data"
           /\ trace[9].n = Len(trace[10].bytes)

----------------------------------------------------------------------------
(* C20: a partial update of the whole panel (x = 0, y = 0, width = 200,    *)
(* height = 200) programs the same window and write counter, the same      *)
(* payloads of 0x44, 0x45, 0x4E and 0x4F, as the full-frame selection of   *)
(* update_frame and clear_frame.                                           *)

C20_WholePanelSameAsFullFrame ==
    (/\ call.op = "update_partial_frame"
     /\ call.x = 0 /\ call.y = 0 /\ call.width = WIDTH /\ call.height = HEIGHT
     /\ Len(trace) >= 7)
        => <<trace[3], trace[4], trace[6], trace[7]>> = BusOf(use_full_frame)

====
